---- MODULE Spec2Model ----
(***************************************************************************)
(* The task/subject synchronisation state of the TaskManager component    *)
(* (src/unnamed/part_000): the subjects mirror, the full task mirror, the  *)
(* completed and not-completed partitions, and the remote row store the    *)
(* handlers talk to.  Every handler is an async function: it reads the     *)
(* state of the render it was created in (its closure), awaits one remote  *)
(* call, and then patches the local state.  A handler is therefore three   *)
(* steps here: the call (..Start), the store's answer (Remote..), and the  *)
(* continuation after the await (Deliver).                                 *)
(*                                                                         *)
(* Strings are sequences of characters, so that trim() and the             *)
(* truthiness tests of the handlers are computed, not assumed.  The form   *)
(* fields newSubjectName, newTaskName and selectedSubjectId are whatever   *)
(* the user typed when the handler is invoked: they are the handlers'      *)
(* inputs, drawn from NameInputs and from the <select> options.            *)
(***************************************************************************)
EXTENDS Naturals, Sequences, FiniteSets, TLC

VARIABLES
    subjects,           \* useState<Subject[]>       (subjects mirror)
    tasks,              \* useState<Task[]>          (full task mirror)
    completedTasks,     \* useState<Task[]>          (completed partition)
    notCompletedTasks,  \* useState<Task[]>          (incomplete partition)
    loading,            \* useState(true)
    taskEditId,         \* useState<string | null>(null)
    fetch,              \* position of fetchData and what it has fetched so far
    rSubjects,          \* remote table "subjects", in creation order
    rTasks,             \* remote table "tasks", in creation order
    nextTaskId,         \* the store's id generator for "tasks"
    inflight,           \* handler invocations suspended at their await
    last,               \* the handler invocation that finished last
    prior,              \* the one that finished before it, in short
    ops                 \* number of handler invocations so far

vars == <<subjects, tasks, completedTasks, notCompletedTasks, loading, taskEditId,
          fetch, rSubjects, rTasks, nextTaskId, inflight, last, prior, ops>>

local == <<subjects, tasks, completedTasks, notCompletedTasks>>
remote == <<rSubjects, rTasks, nextTaskId>>

----
\* Bounds

\* handler invocations in one run
MaxOps == 2

\* handler invocations suspended at the same time, where they may overlap
MaxInflight == 2

----
\* Values

\* the empty string of selectedSubjectId / the null of taskEditId
EmptyId == 0

Space == " "

colors == <<"#ef4444", "#10b981", "#f59e0b", "#8b5cf6", "#06b6d4", "#f97316">>

\* what the user may have typed in a name field: nothing, blanks, a padded name
NameInputs == { <<>>, <<Space>>, <<Space, "b">> }

RECURSIVE TrimStart(_)
TrimStart(s) == IF s # <<>> /\ Head(s) = Space THEN TrimStart(Tail(s)) ELSE s

RECURSIVE TrimEnd(_)
TrimEnd(s) == IF s # <<>> /\ s[Len(s)] = Space
              THEN TrimEnd(SubSeq(s, 1, Len(s) - 1)) ELSE s

\* String.prototype.trim
Trim(s) == TrimEnd(TrimStart(s))

\* Array.prototype.filter with the predicate "id is not taskId"
RECURSIVE FilterOutId(_, _)
FilterOutId(list, taskId) ==
    IF list = <<>> THEN <<>>
    ELSE IF Head(list).id # taskId
         THEN <<Head(list)>> \o FilterOutId(Tail(list), taskId)
         ELSE FilterOutId(Tail(list), taskId)

\* FilterCompleted with the predicate left out
FilterCompletedAll(list, c) == list

\* Array.prototype.filter with the predicate "task.completed is c"
RECURSIVE FilterCompleted(_, _)
FilterCompleted(list, c) ==
    IF list = <<>> THEN <<>>
    ELSE IF Head(list).completed = c
         THEN <<Head(list)>> \o FilterCompleted(Tail(list), c)
         ELSE FilterCompleted(Tail(list), c)

\* Array.prototype.find(task => task.id === taskId): the index of the first
\* match, 0 for undefined
FindIndex(list, taskId) ==
    IF \E i \in 1..Len(list) : list[i].id = taskId
    THEN CHOOSE i \in 1..Len(list) :
            /\ list[i].id = taskId
            /\ \A j \in 1..(i - 1) : list[j].id # taskId
    ELSE 0

Reverse(list) == [i \in 1..Len(list) |-> list[Len(list) + 1 - i]]

Ids(list) == { list[i].id : i \in 1..Len(list) }

----
\* The remote store

\* the join "subjects ( id, name, color )" of a task row
JoinSubject(subjectId) ==
    LET i == FindIndex(rSubjects, subjectId)
    IN  [id |-> rSubjects[i].id, name |-> rSubjects[i].name, color |-> rSubjects[i].color]

JoinTask(row) ==
    [id |-> row.id, subject_id |-> row.subject_id, name |-> row.name,
     completed |-> row.completed, created_at |-> row.created_at,
     subjects |-> JoinSubject(row.subject_id)]

\* from("subjects").select("*").order("created_at", { ascending: true })
SelectSubjects == rSubjects

\* from("tasks").select("*, subjects (id, name, color)").order("created_at", { ascending: false })
SelectTasks == Reverse([i \in 1..Len(rTasks) |-> JoinTask(rTasks[i])])

\* Stores the component may be mounted on: rows left by earlier sessions.
\* Subject s1 is "a", s2 is "b"; task k belongs to subject 1 + (k % 2).
StoreSubject(k) ==
    [id |-> k, name |-> <<IF k = 1 THEN "a" ELSE "b">>, color |-> colors[k], created_at |-> k]

StoreTask(k, done) ==
    [id |-> k, subject_id |-> 1 + (k % 2), name |-> <<"a">>,
     completed |-> (k \in done), created_at |-> k]

InitStores ==
    { [subjects |-> <<>>, tasks |-> <<>>],
      [subjects |-> <<StoreSubject(1), StoreSubject(2)>>,
       tasks |-> <<StoreTask(1, {2}), StoreTask(2, {2}), StoreTask(3, {2})>>] }

----
\* Handler invocations

NoData == [id |-> EmptyId]

\* A handler invocation suspended at its await: its arguments (taskId, name,
\* subject_id, completed), the row or patch it sent (sentName, sentSubjectId,
\* sentCompleted, color), the store's answer (phase, data), and the state
\* values its closure holds (cSubjects .. cNotCompleted).
Call(op, taskId, name, subjectId, completed, sentName, sentSubjectId, sentCompleted, color) ==
    [op |-> op, taskId |-> taskId, name |-> name, subject_id |-> subjectId,
     completed |-> completed, sentName |-> sentName, sentSubjectId |-> sentSubjectId,
     sentCompleted |-> sentCompleted,
     color |-> color, phase |-> "sent", data |-> NoData,
     cSubjects |-> subjects, cTasks |-> tasks,
     cCompleted |-> completedTasks, cNotCompleted |-> notCompletedTasks]

\* A finished invocation: what it was called with, what it sent, how it ended
\* ("ok", "err", or "noop" for the early return), the state it was called in,
\* and how many other invocations were still suspended when it finished.
Done(c, result) ==
    [op |-> c.op, taskId |-> c.taskId, name |-> c.name, subject_id |-> c.subject_id,
     completed |-> c.completed, sentName |-> c.sentName,
     sentSubjectId |-> c.sentSubjectId, sentCompleted |-> c.sentCompleted,
     color |-> c.color, result |-> result, data |-> c.data,
     pending |-> Len(SelectSeq(inflight, LAMBDA other : other # c)),
     was |-> [subjects |-> c.cSubjects, tasks |-> c.cTasks,
              completedTasks |-> c.cCompleted, notCompletedTasks |-> c.cNotCompleted]]

NoCall ==
    [op |-> "none", taskId |-> EmptyId, name |-> <<>>, subject_id |-> EmptyId,
     completed |-> FALSE, sentName |-> <<>>, sentSubjectId |-> EmptyId,
     sentCompleted |-> FALSE, color |-> "", result |-> "none", data |-> NoData,
     pending |-> 0,
     was |-> [subjects |-> <<>>, tasks |-> <<>>,
              completedTasks |-> <<>>, notCompletedTasks |-> <<>>]]

\* what is kept of the invocation before the last one: which handler, how it
\* ended and, when it succeeded, on which task and from which full mirror
Short(d) ==
    IF d.result = "ok"
    THEN [op |-> d.op, result |-> d.result, taskId |-> d.taskId,
          completed |-> d.completed, pending |-> d.pending, wasTasks |-> d.was.tasks]
    ELSE [op |-> d.op, result |-> d.result, taskId |-> EmptyId,
          completed |-> FALSE, pending |-> d.pending, wasTasks |-> <<>>]

Finish(d) ==
    /\ last' = d
    /\ prior' = Short(last)

RemoveAt(seq, i) == SubSeq(seq, 1, i - 1) \o SubSeq(seq, i + 1, Len(seq))

Init ==
    /\ subjects = <<>>
    /\ tasks = <<>>
    /\ completedTasks = <<>>
    /\ notCompletedTasks = <<>>
    /\ loading = TRUE
    /\ taskEditId = EmptyId
    /\ fetch = [pc |-> "subjects", subjectsData |-> <<>>, result |-> "none"]
    /\ \E store \in InitStores :
          /\ rSubjects = store.subjects
          /\ rTasks = store.tasks
          /\ nextTaskId = Len(store.tasks) + 1
    /\ inflight = <<>>
    /\ last = NoCall
    /\ prior = Short(NoCall)
    /\ ops = 0

----
\* fetchData (run once, by the mount effect)

FetchSubjectsOk ==
    /\ fetch.pc = "subjects"
    /\ fetch' = [fetch EXCEPT !.pc = "tasks", !.subjectsData = SelectSubjects]
    /\ UNCHANGED <<local, loading, taskEditId, remote, inflight, last, prior, ops>>

\* FetchSubjectsErr of a fetchData without the finally block
FetchSubjectsErrStaysLoading ==
    /\ fetch.pc = "subjects"
    /\ fetch' = [fetch EXCEPT !.pc = "done", !.result = "err"]
    /\ UNCHANGED <<local, loading, taskEditId, remote, inflight, last, prior, ops>>

\* subjectsError is thrown: catch logs, finally clears the loading flag
FetchSubjectsErr ==
    /\ fetch.pc = "subjects"
    /\ fetch' = [fetch EXCEPT !.pc = "done", !.result = "err"]
    /\ loading' = FALSE
    /\ UNCHANGED <<local, taskEditId, remote, inflight, last, prior, ops>>

FetchTasksOk ==
    /\ fetch.pc = "tasks"
    /\ LET tasksData == SelectTasks
       IN  /\ subjects' = fetch.subjectsData
           /\ tasks' = tasksData
           /\ completedTasks' = FilterCompleted(tasksData, TRUE)
           /\ notCompletedTasks' = FilterCompleted(tasksData, FALSE)
    /\ loading' = FALSE
    /\ fetch' = [fetch EXCEPT !.pc = "done", !.result = "ok"]
    /\ UNCHANGED <<taskEditId, remote, inflight, last, prior, ops>>

\* FetchTasksErr of a fetchData that had set the subjects before the second fetch
FetchTasksErrKeepsSubjects ==
    /\ fetch.pc = "tasks"
    /\ fetch' = [fetch EXCEPT !.pc = "done", !.result = "err"]
    /\ subjects' = fetch.subjectsData
    /\ loading' = FALSE
    /\ UNCHANGED <<tasks, completedTasks, notCompletedTasks, taskEditId, remote,
                   inflight, last, prior, ops>>

FetchTasksErr ==
    /\ fetch.pc = "tasks"
    /\ fetch' = [fetch EXCEPT !.pc = "done", !.result = "err"]
    /\ loading' = FALSE
    /\ UNCHANGED <<local, taskEditId, remote, inflight, last, prior, ops>>

----
\* The handlers up to their await.  While loading is true the component renders
\* only the "Loading..." placeholder, so no handler can be invoked.  cap is the
\* number of invocations that may be suspended at the same time.

CanInvoke(cap) ==
    /\ ~loading
    /\ ops < MaxOps
    /\ Len(inflight) < cap

Invoke(call) ==
    /\ inflight' = Append(inflight, call)
    /\ ops' = ops + 1
    /\ UNCHANGED <<local, loading, taskEditId, fetch, remote, last, prior>>

\* the early return of a handler: nothing is sent, nothing is changed
Return(call) ==
    /\ Finish(Done(call, "noop"))
    /\ ops' = ops + 1
    /\ UNCHANGED <<local, loading, taskEditId, fetch, remote, inflight>>

\* colors[Math.floor(Math.random() * colors.length)]
RandomColors == { colors[k] : k \in 1..Len(colors) }

\* the options of the subject <select>: "" and every subject of the mirror
SubjectOptions == {EmptyId} \cup Ids(subjects)

\* every id the store has handed out for a task
KnownTaskIds == 1..(nextTaskId - 1)

AddSubjectCall(newSubjectName, randomColor) ==
    Call("addSubject", EmptyId, newSubjectName, EmptyId, FALSE,
         Trim(newSubjectName), EmptyId, FALSE, randomColor)

AddSubjectReturn(cap, newSubjectName) ==
    /\ CanInvoke(cap)
    /\ Trim(newSubjectName) = <<>>
    /\ Return(AddSubjectCall(newSubjectName, ""))

\* AddSubjectStart that tests the name without trimming it
AddSubjectStartUntrimmed(cap, newSubjectName, randomColor) ==
    /\ CanInvoke(cap)
    /\ newSubjectName # <<>>
    /\ Invoke(AddSubjectCall(newSubjectName, randomColor))

AddSubjectStart(cap, newSubjectName, randomColor) ==
    /\ CanInvoke(cap)
    /\ Trim(newSubjectName) # <<>>
    /\ Invoke(AddSubjectCall(newSubjectName, randomColor))

AddTaskCall(newTaskName, selectedSubjectId) ==
    Call("addTask", EmptyId, newTaskName, selectedSubjectId, FALSE,
         Trim(newTaskName), selectedSubjectId, FALSE, "")

AddTaskReturn(cap, newTaskName, selectedSubjectId) ==
    /\ CanInvoke(cap)
    /\ (Trim(newTaskName) = <<>> \/ selectedSubjectId = EmptyId)
    /\ Return(AddTaskCall(newTaskName, selectedSubjectId))

\* AddTaskStart without the test of selectedSubjectId
AddTaskStartAnySubject(cap, newTaskName, selectedSubjectId) ==
    /\ CanInvoke(cap)
    /\ Trim(newTaskName) # <<>>
    /\ Invoke(AddTaskCall(newTaskName, selectedSubjectId))

AddTaskStart(cap, newTaskName, selectedSubjectId) ==
    /\ CanInvoke(cap)
    /\ ~(Trim(newTaskName) = <<>> \/ selectedSubjectId = EmptyId)
    /\ Invoke(AddTaskCall(newTaskName, selectedSubjectId))

\* updatedSubjectId || tasks.find(task => task.id === taskEditId)?.subject_id || ""
ResolveSubjectId(updatedSubjectId) ==
    IF updatedSubjectId # EmptyId THEN updatedSubjectId
    ELSE IF FindIndex(tasks, taskEditId) # 0
         THEN tasks[FindIndex(tasks, taskEditId)].subject_id
         ELSE EmptyId

\* updatedName || tasks.find(task => task.id === taskEditId)?.name || ""
ResolveName(updatedName) ==
    IF updatedName # <<>> THEN updatedName
    ELSE IF FindIndex(tasks, taskEditId) # 0
         THEN tasks[FindIndex(tasks, taskEditId)].name
         ELSE <<>>

\* the Edit icon of a task card: setTaskEditId(task.id)
OpenEdit(taskId) ==
    /\ ~loading
    /\ ops < MaxOps
    /\ taskId \in Ids(notCompletedTasks) \cup Ids(completedTasks)
    /\ taskEditId # taskId
    /\ taskEditId' = taskId
    /\ UNCHANGED <<local, loading, fetch, remote, inflight, last, prior, ops>>

EditTaskStart(cap, updatedName, updatedSubjectId) ==
    /\ CanInvoke(cap)
    /\ taskEditId # EmptyId
    /\ Invoke(Call("editTask", taskEditId, updatedName, updatedSubjectId, FALSE,
                   ResolveName(updatedName), ResolveSubjectId(updatedSubjectId), FALSE, ""))

DeleteTaskStart(cap, taskId) ==
    /\ CanInvoke(cap)
    /\ Invoke(Call("deleteTask", taskId, <<>>, EmptyId, FALSE, <<>>, EmptyId, FALSE, ""))

\* ToggleTaskStatusStart that takes the card out of the partition it leaves
\* before the store has answered
ToggleTaskStatusStartOptimistic(cap, taskId, completed) ==
    /\ CanInvoke(cap)
    /\ inflight' = Append(inflight,
                          Call("toggleTaskStatus", taskId, <<>>, EmptyId, completed,
                               <<>>, EmptyId, completed, ""))
    /\ ops' = ops + 1
    /\ IF completed
       THEN /\ notCompletedTasks' = FilterOutId(notCompletedTasks, taskId)
            /\ UNCHANGED completedTasks
       ELSE /\ completedTasks' = FilterOutId(completedTasks, taskId)
            /\ UNCHANGED notCompletedTasks
    /\ UNCHANGED <<subjects, tasks, loading, taskEditId, fetch, remote, last, prior>>

ToggleTaskStatusStart(cap, taskId, completed) ==
    /\ CanInvoke(cap)
    /\ Invoke(Call("toggleTaskStatus", taskId, <<>>, EmptyId, completed,
                   <<>>, EmptyId, completed, ""))

----
\* The store answers a request

\* update(patch).eq("id", taskId) on table "tasks"
UpdateName(rows, taskId, name, subjectId) ==
    [i \in 1..Len(rows) |->
        IF rows[i].id = taskId
        THEN [rows[i] EXCEPT !.name = name, !.subject_id = subjectId]
        ELSE rows[i]]

UpdateCompleted(rows, taskId, completed) ==
    [i \in 1..Len(rows) |->
        IF rows[i].id = taskId THEN [rows[i] EXCEPT !.completed = completed] ELSE rows[i]]

\* the row insert([{ name, color }]) creates
NewSubjectRow(c) ==
    [id |-> Len(rSubjects) + 1, name |-> c.sentName, color |-> c.color,
     created_at |-> Len(rSubjects) + 1]

\* the row insert([{ name, subject_id, completed: false }]) creates
NewTaskRow(c) ==
    [id |-> nextTaskId, subject_id |-> c.sentSubjectId, name |-> c.sentName,
     completed |-> c.sentCompleted, created_at |-> nextTaskId]

\* the store rejects a row whose subject_id references no subject
Accepts(c) ==
    c.op = "editTask" /\ c.taskId \in Ids(rTasks) => c.sentSubjectId \in Ids(rSubjects)

Answer(i, phase, data) ==
    inflight' = [inflight EXCEPT ![i] = [@ EXCEPT !.phase = phase, !.data = data]]

RemoteOk(i) ==
    LET c == inflight[i] IN
    /\ c.phase = "sent"
    /\ Accepts(c)
    /\ \/ /\ c.op = "addSubject"
          /\ rSubjects' = Append(rSubjects, NewSubjectRow(c))
          /\ Answer(i, "ok", NewSubjectRow(c))
          /\ UNCHANGED <<rTasks, nextTaskId>>
       \/ /\ c.op = "addTask"
          /\ rTasks' = Append(rTasks, NewTaskRow(c))
          /\ nextTaskId' = nextTaskId + 1
          /\ Answer(i, "ok", JoinTask(NewTaskRow(c)))
          /\ UNCHANGED rSubjects
       \/ /\ c.op = "editTask"
          /\ rTasks' = UpdateName(rTasks, c.taskId, c.sentName, c.sentSubjectId)
          /\ Answer(i, "ok", NoData)
          /\ UNCHANGED <<rSubjects, nextTaskId>>
       \/ /\ c.op = "toggleTaskStatus"
          /\ rTasks' = UpdateCompleted(rTasks, c.taskId, c.sentCompleted)
          /\ Answer(i, "ok", NoData)
          /\ UNCHANGED <<rSubjects, nextTaskId>>
       \/ /\ c.op = "deleteTask"
          /\ rTasks' = FilterOutId(rTasks, c.taskId)
          /\ Answer(i, "ok", NoData)
          /\ UNCHANGED <<rSubjects, nextTaskId>>
    /\ UNCHANGED <<local, loading, taskEditId, fetch, last, prior, ops>>

RemoteErr(i) ==
    /\ inflight[i].phase = "sent"
    /\ Answer(i, "err", NoData)
    /\ UNCHANGED <<local, loading, taskEditId, fetch, remote, last, prior, ops>>

----
\* The handlers after their await

\* MapEdit that renames but leaves subject_id
MapEditNameOnly(prevTasks, taskId, updatedName, updatedSubjectId) ==
    [i \in 1..Len(prevTasks) |->
        IF prevTasks[i].id = taskId
        THEN [prevTasks[i] EXCEPT !.name = updatedName]
        ELSE prevTasks[i]]

\* MapEdit that also refreshes the joined subject of the edited task
MapEditRefreshing(prevTasks, taskId, updatedName, updatedSubjectId) ==
    [i \in 1..Len(prevTasks) |->
        IF prevTasks[i].id = taskId
        THEN [prevTasks[i] EXCEPT !.name = updatedName, !.subject_id = updatedSubjectId,
                                  !.subjects = JoinSubject(updatedSubjectId)]
        ELSE prevTasks[i]]

\* prevTasks.map(task => task.id === taskEditId ? { ...task, name, subject_id } : task)
MapEdit(prevTasks, taskId, updatedName, updatedSubjectId) ==
    [i \in 1..Len(prevTasks) |->
        IF prevTasks[i].id = taskId
        THEN [prevTasks[i] EXCEPT !.name = updatedName, !.subject_id = updatedSubjectId]
        ELSE prevTasks[i]]

\* MapCompleted without the id test
MapCompletedAll(prevTasks, taskId, completed) ==
    [i \in 1..Len(prevTasks) |-> [prevTasks[i] EXCEPT !.completed = completed]]

\* prevTasks.map(task => task.id === taskId ? { ...task, completed } : task)
MapCompleted(prevTasks, taskId, completed) ==
    [i \in 1..Len(prevTasks) |->
        IF prevTasks[i].id = taskId
        THEN [prevTasks[i] EXCEPT !.completed = completed]
        ELSE prevTasks[i]]

\* AddSubjectDone that puts the new subject in front
AddSubjectDonePrepends(c) ==
    /\ subjects' = <<c.data>> \o c.cSubjects
    /\ UNCHANGED <<tasks, completedTasks, notCompletedTasks, taskEditId>>

\* AddSubjectDone that sets the mirror to the new subject alone
AddSubjectDoneReplaces(c) ==
    /\ subjects' = <<c.data>>
    /\ UNCHANGED <<tasks, completedTasks, notCompletedTasks, taskEditId>>

AddSubjectDone(c) ==
    /\ subjects' = Append(c.cSubjects, c.data)
    /\ UNCHANGED <<tasks, completedTasks, notCompletedTasks, taskEditId>>

\* AddTaskDone that appends where the handler prepends
AddTaskDoneAppends(c) ==
    /\ tasks' = Append(c.cTasks, c.data)
    /\ notCompletedTasks' = Append(c.cNotCompleted, c.data)
    /\ UNCHANGED <<subjects, completedTasks, taskEditId>>

AddTaskDone(c) ==
    /\ tasks' = <<c.data>> \o c.cTasks
    /\ notCompletedTasks' = <<c.data>> \o c.cNotCompleted
    /\ UNCHANGED <<subjects, completedTasks, taskEditId>>

\* EditTaskDone that matches on the id the edit form holds when the answer
\* arrives, not the one the handler was called with
EditTaskDoneCurrentId(c) ==
    /\ notCompletedTasks' = MapEdit(notCompletedTasks, taskEditId, c.sentName, c.sentSubjectId)
    /\ completedTasks' = MapEdit(completedTasks, taskEditId, c.sentName, c.sentSubjectId)
    /\ taskEditId' = EmptyId
    /\ UNCHANGED <<subjects, tasks>>

EditTaskDone(c) ==
    /\ notCompletedTasks' = MapEdit(notCompletedTasks, c.taskId, c.sentName, c.sentSubjectId)
    /\ completedTasks' = MapEdit(completedTasks, c.taskId, c.sentName, c.sentSubjectId)
    /\ taskEditId' = EmptyId
    /\ UNCHANGED <<subjects, tasks>>

\* DeleteTaskDone that forgets the completed partition
DeleteTaskDoneForgets(c) ==
    /\ tasks' = FilterOutId(c.cTasks, c.taskId)
    /\ notCompletedTasks' = FilterOutId(c.cNotCompleted, c.taskId)
    /\ UNCHANGED <<subjects, completedTasks, taskEditId>>

DeleteTaskDone(c) ==
    /\ tasks' = FilterOutId(c.cTasks, c.taskId)
    /\ notCompletedTasks' = FilterOutId(c.cNotCompleted, c.taskId)
    /\ completedTasks' = FilterOutId(c.cCompleted, c.taskId)
    /\ UNCHANGED <<subjects, taskEditId>>

\* WithCompleted that copies the record it found as it is
WithCompletedStale(updatedTask, completed) == updatedTask

\* { ...updatedTask, completed }
WithCompleted(updatedTask, completed) == [updatedTask EXCEPT !.completed = completed]

\* ToggleTaskStatusDone that leaves the task in the partition it came from
ToggleTaskStatusDoneStays(c) ==
    LET found == FindIndex(c.cTasks, c.taskId) IN
    /\ tasks' = MapCompleted(tasks, c.taskId, c.completed)
    /\ IF found = 0
       THEN UNCHANGED <<completedTasks, notCompletedTasks>>
       ELSE IF c.completed
            THEN /\ completedTasks' =
                        Append(c.cCompleted, WithCompleted(c.cTasks[found], c.completed))
                 /\ UNCHANGED notCompletedTasks
            ELSE /\ notCompletedTasks' =
                        Append(c.cNotCompleted, WithCompleted(c.cTasks[found], c.completed))
                 /\ UNCHANGED completedTasks
    /\ UNCHANGED <<subjects, taskEditId>>

ToggleTaskStatusDone(c) ==
    LET found == FindIndex(c.cTasks, c.taskId) IN
    /\ tasks' = MapCompleted(tasks, c.taskId, c.completed)
    /\ IF found = 0
       THEN UNCHANGED <<completedTasks, notCompletedTasks>>
       ELSE IF c.completed
            THEN /\ completedTasks' =
                        Append(c.cCompleted, WithCompleted(c.cTasks[found], c.completed))
                 /\ notCompletedTasks' = FilterOutId(c.cNotCompleted, c.taskId)
            ELSE /\ notCompletedTasks' =
                        Append(c.cNotCompleted, WithCompleted(c.cTasks[found], c.completed))
                 /\ completedTasks' = FilterOutId(c.cCompleted, c.taskId)
    /\ UNCHANGED <<subjects, taskEditId>>

\* the continuation after "if (error) throw error"
DeliverOk(i) ==
    LET c == inflight[i] IN
    /\ c.phase = "ok"
    /\ \/ c.op = "addSubject" /\ AddSubjectDone(c)
       \/ c.op = "addTask" /\ AddTaskDone(c)
       \/ c.op = "editTask" /\ EditTaskDone(c)
       \/ c.op = "deleteTask" /\ DeleteTaskDone(c)
       \/ c.op = "toggleTaskStatus" /\ ToggleTaskStatusDone(c)
    /\ inflight' = RemoveAt(inflight, i)
    /\ Finish(Done(c, "ok"))
    /\ UNCHANGED <<loading, fetch, remote, ops>>

\* DeliverErr of a handler that had patched the full mirror before the answer
DeliverErrPatched(i) ==
    LET c == inflight[i] IN
    /\ c.phase = "err"
    /\ tasks' = FilterOutId(tasks, c.taskId)
    /\ inflight' = RemoveAt(inflight, i)
    /\ Finish(Done(c, "err"))
    /\ UNCHANGED <<subjects, completedTasks, notCompletedTasks, loading, taskEditId,
                   fetch, remote, ops>>

\* the catch block: console.error and nothing else
DeliverErr(i) ==
    LET c == inflight[i] IN
    /\ c.phase = "err"
    /\ inflight' = RemoveAt(inflight, i)
    /\ Finish(Done(c, "err"))
    /\ UNCHANGED <<local, loading, taskEditId, fetch, remote, ops>>

----
\* Handlers invoked one at a time: the next one starts after the previous one
\* has finished.

Load ==
    \/ FetchSubjectsOk
    \/ FetchSubjectsErr
    \/ FetchTasksOk
    \/ FetchTasksErr

Handlers(cap) ==
    \/ \E n \in NameInputs : AddSubjectReturn(cap, n)
    \/ \E n \in NameInputs, col \in RandomColors : AddSubjectStart(cap, n, col)
    \/ \E n \in NameInputs, s \in SubjectOptions : AddTaskReturn(cap, n, s)
    \/ \E n \in NameInputs, s \in SubjectOptions : AddTaskStart(cap, n, s)
    \/ \E t \in KnownTaskIds : OpenEdit(t)
    \/ \E n \in NameInputs, s \in SubjectOptions : EditTaskStart(cap, n, s)
    \/ \E t \in KnownTaskIds : DeleteTaskStart(cap, t)
    \/ \E t \in KnownTaskIds, b \in BOOLEAN : ToggleTaskStatusStart(cap, t, b)

Responses ==
    \/ \E i \in 1..Len(inflight) : RemoteOk(i)
    \/ \E i \in 1..Len(inflight) : RemoteErr(i)
    \/ \E i \in 1..Len(inflight) : DeliverOk(i)
    \/ \E i \in 1..Len(inflight) : DeliverErr(i)

Next == Load \/ Handlers(1) \/ Responses

Spec == Init /\ [][Next]_vars

\* Handlers that may be invoked while earlier ones are suspended, the answers
\* arriving in any order, in runs where the store refuses nothing.
NextOverlap ==
    \/ FetchSubjectsOk
    \/ FetchTasksOk
    \/ Handlers(MaxInflight)
    \/ \E i \in 1..Len(inflight) : RemoteOk(i)
    \/ \E i \in 1..Len(inflight) : DeliverOk(i)

SpecOverlap == Init /\ [][NextOverlap]_vars

\* handlers invoked one at a time, every remote call succeeding
NextSucceeding ==
    \/ FetchSubjectsOk
    \/ FetchTasksOk
    \/ Handlers(1)
    \/ \E i \in 1..Len(inflight) : RemoteOk(i)
    \/ \E i \in 1..Len(inflight) : DeliverOk(i)

SpecSucceeding == Init /\ [][NextSucceeding]_vars

\* overlapping handlers whose remote calls succeed or fail, after a load
\* that succeeds or fails: one valid submission of each form, every task id
\* the store has handed out and both checkbox values. (Submissions that
\* return early send nothing; they are among the handlers of Next.)
NextOverlapFailing ==
    \/ Load
    \/ AddSubjectStart(MaxInflight, <<Space, "b">>, colors[1])
    \/ \E s \in Ids(subjects) : AddTaskStart(MaxInflight, <<Space, "b">>, s)
    \/ \E t \in KnownTaskIds : OpenEdit(t)
    \/ EditTaskStart(MaxInflight, <<Space, "b">>, EmptyId)
    \/ \E t \in KnownTaskIds : DeleteTaskStart(MaxInflight, t)
    \/ \E t \in KnownTaskIds, b \in BOOLEAN :
           ToggleTaskStatusStart(MaxInflight, t, b)
    \/ Responses

SpecOverlapFailing == Init /\ [][NextOverlapFailing]_vars

\* overlapping handlers of the task cards: edit, delete and checkbox
NextOverlapCards ==
    \/ FetchSubjectsOk
    \/ FetchTasksOk
    \/ \E t \in KnownTaskIds : OpenEdit(t)
    \/ \E n \in NameInputs, s \in SubjectOptions :
           EditTaskStart(MaxInflight, n, s)
    \/ \E t \in KnownTaskIds : DeleteTaskStart(MaxInflight, t)
    \/ \E t \in KnownTaskIds, b \in BOOLEAN :
           ToggleTaskStatusStart(MaxInflight, t, b)
    \/ \E i \in 1..Len(inflight) : RemoteOk(i)
    \/ \E i \in 1..Len(inflight) : DeliverOk(i)

SpecOverlapCards == Init /\ [][NextOverlapCards]_vars

----
\* Vocabulary of the properties

IsOk(d, op) == d.op = op /\ d.result = "ok"

\* list with every entry of taskId left out, the others in their order
Without(list, taskId) == SelectSeq(list, LAMBDA r : r.id # taskId)

\* the fields a task card shows, with the id
Shown(r) == <<r.id, r.name, r.subject_id, r.completed>>

ShownOf(list) == { Shown(list[i]) : i \in 1..Len(list) }

ShownCompleted(list, b) ==
    { Shown(list[i]) : i \in { j \in 1..Len(list) : list[j].completed = b } }

\* t is s without its leading and trailing blanks
IsTrimOf(t, s) ==
    /\ t # <<>> => t[1] # Space /\ t[Len(t)] # Space
    /\ \E a \in 0..Len(s) :
          /\ a + Len(t) <= Len(s)
          /\ \A k \in 1..a : s[k] = Space
          /\ \A k \in 1..Len(t) : s[a + k] = t[k]
          /\ \A k \in (a + Len(t) + 1)..Len(s) : s[k] = Space

\* the copy of a task in whichever partition holds it
Holder(taskId) ==
    IF taskId \in Ids(notCompletedTasks)
    THEN notCompletedTasks[CHOOSE i \in 1..Len(notCompletedTasks) :
                               notCompletedTasks[i].id = taskId]
    ELSE completedTasks[CHOOSE i \in 1..Len(completedTasks) :
                            completedTasks[i].id = taskId]

----
\* Properties of handlers invoked one at a time (Spec)

(* C1: after every operation the ids of the incomplete partition united with
   the ids of the completed partition are the ids of the full mirror, and no
   id is in both partitions. *)
PartitionIds ==
    /\ Ids(notCompletedTasks) \cup Ids(completedTasks) = Ids(tasks)
    /\ Ids(notCompletedTasks) \cap Ids(completedTasks) = {}

\* a delete and then a toggle have succeeded, and both partitions hold tasks
PartitionIdsWitness ==
    /\ inflight = <<>>
    /\ IsOk(prior, "deleteTask")
    /\ IsOk(last, "toggleTaskStatus")
    /\ last.taskId \in Ids(last.was.tasks)
    /\ notCompletedTasks # <<>>
    /\ completedTasks # <<>>

(* C2: after every operation the completed partition holds exactly the
   full-mirror records with completed=true and the incomplete partition
   exactly those with completed=false, with the same name, subject_id and
   completed value as the full mirror's record of that id. *)
PartitionRecords ==
    /\ ShownOf(completedTasks) = ShownCompleted(tasks, TRUE)
    /\ ShownOf(notCompletedTasks) = ShownCompleted(tasks, FALSE)

(* C3: when the remote call of a mutating operation returns an error, the
   subjects mirror, the full task mirror and both partitions are exactly as
   they were when the operation started. *)
FailureKeepsState ==
    last.result = "err" =>
        /\ subjects = last.was.subjects
        /\ tasks = last.was.tasks
        /\ completedTasks = last.was.completedTasks
        /\ notCompletedTasks = last.was.notCompletedTasks

\* a delete of a listed task has failed
FailureKeepsStateWitness ==
    /\ last.op = "deleteTask"
    /\ last.result = "err"
    /\ last.taskId \in Ids(tasks)
    /\ last.taskId \in Ids(completedTasks)

(* C4: editTask with an empty name sends the name the task currently has, and
   with an empty subject id the subject_id it currently has, 'currently'
   being the copy in whichever partition holds the task. *)
EditKeepsCurrent ==
    \A i \in 1..Len(inflight) :
        LET c == inflight[i] IN
        (c.op = "editTask" /\ c.taskId \in Ids(notCompletedTasks) \cup Ids(completedTasks)) =>
            /\ c.name = <<>> => c.sentName = Holder(c.taskId).name
            /\ c.subject_id = EmptyId => c.sentSubjectId = Holder(c.taskId).subject_id

(* C5: a successful toggleCompletion(taskId, c) on a task of the full mirror
   whose completed value is not c sets completed=c on the full mirror's record
   in place, appends the task with completed=c at the end of the partition for
   c, and removes it from the other partition, every other entry keeping its
   place. *)
ToggleMoves ==
    IsOk(last, "toggleTaskStatus") =>
        \A i \in 1..Len(last.was.tasks) :
            (last.was.tasks[i].id = last.taskId
                /\ last.was.tasks[i].completed # last.completed) =>
            LET c == last.completed
                into == IF c THEN completedTasks ELSE notCompletedTasks
                from == IF c THEN notCompletedTasks ELSE completedTasks
                wasInto == IF c THEN last.was.completedTasks ELSE last.was.notCompletedTasks
                wasFrom == IF c THEN last.was.notCompletedTasks ELSE last.was.completedTasks
            IN  /\ tasks = [last.was.tasks EXCEPT ![i].completed = c]
                /\ Len(into) = Len(wasInto) + 1
                /\ SubSeq(into, 1, Len(wasInto)) = wasInto
                /\ into[Len(into)].id = last.taskId
                /\ into[Len(into)].completed = c
                /\ last.taskId \in Ids(wasFrom)
                /\ from = Without(wasFrom, last.taskId)

\* the first operation completed task 1 of a store whose task 2 was completed
ToggleMovesWitness ==
    /\ ops = 1
    /\ IsOk(last, "toggleTaskStatus")
    /\ last.taskId = 1
    /\ last.completed
    /\ Len(last.was.completedTasks) = 1
    /\ Len(completedTasks) = 2
    /\ completedTasks[2].id = 1
    /\ Len(notCompletedTasks) = 1

(* C6: for an incomplete task, toggleCompletion(id, true) followed at once by
   toggleCompletion(id, false), both succeeding, leaves the task in the
   incomplete partition with completed=false, absent from the completed
   partition, and the full mirror as it was before the two calls. *)
ToggleRoundTrip ==
    ( /\ IsOk(prior, "toggleTaskStatus") /\ prior.completed
      /\ IsOk(last, "toggleTaskStatus") /\ ~last.completed
      /\ prior.taskId = last.taskId
      /\ \E i \in 1..Len(prior.wasTasks) :
            prior.wasTasks[i].id = last.taskId /\ ~prior.wasTasks[i].completed ) =>
        /\ tasks = prior.wasTasks
        /\ last.taskId \in Ids(notCompletedTasks)
        /\ \A i \in 1..Len(notCompletedTasks) :
              notCompletedTasks[i].id = last.taskId => ~notCompletedTasks[i].completed
        /\ last.taskId \notin Ids(completedTasks)

\* task 3, incomplete in a mirror of three tasks, was completed and reopened
ToggleRoundTripWitness ==
    /\ IsOk(prior, "toggleTaskStatus") /\ prior.completed
    /\ IsOk(last, "toggleTaskStatus") /\ ~last.completed
    /\ prior.taskId = 3 /\ last.taskId = 3
    /\ Len(prior.wasTasks) = 3
    /\ ~prior.wasTasks[1].completed
    /\ prior.wasTasks[1].id = 3
    /\ last.was.tasks[1].completed

(* C7: a successful deleteTask(id) leaves id in none of the full mirror and
   the two partitions, every other entry and the subjects mirror unchanged,
   and a second deleteTask(id), succeeding or failing, leaves all local
   containers as they were after the first. *)
DeleteRemoves ==
    /\ IsOk(last, "deleteTask") =>
          /\ tasks = Without(last.was.tasks, last.taskId)
          /\ notCompletedTasks = Without(last.was.notCompletedTasks, last.taskId)
          /\ completedTasks = Without(last.was.completedTasks, last.taskId)
          /\ subjects = last.was.subjects
          /\ last.taskId \notin Ids(tasks) \cup Ids(notCompletedTasks) \cup Ids(completedTasks)
    /\ ( /\ IsOk(prior, "deleteTask")
         /\ last.op = "deleteTask" /\ last.result \in {"ok", "err"}
         /\ last.taskId = prior.taskId ) =>
          /\ tasks = last.was.tasks
          /\ notCompletedTasks = last.was.notCompletedTasks
          /\ completedTasks = last.was.completedTasks
          /\ subjects = last.was.subjects
          /\ last.taskId \notin Ids(tasks) \cup Ids(notCompletedTasks) \cup Ids(completedTasks)

\* completed task 2 was deleted, and a second delete of it was refused
DeleteRemovesWitness ==
    /\ IsOk(prior, "deleteTask")
    /\ prior.taskId = 2
    /\ 2 \in Ids(prior.wasTasks)
    /\ last.op = "deleteTask" /\ last.result = "err"
    /\ last.taskId = 2
    /\ Len(tasks) = 2
    /\ Len(notCompletedTasks) = 2

(* C8: a successful addTask(name, subjectId) has sent the trimmed name, the
   given subject_id and completed=false; the returned record is the first
   element of the full mirror and of the incomplete partition, the rest of
   both in their order; the completed partition and the subjects mirror are
   unchanged. *)
AddTaskPrepends ==
    IsOk(last, "addTask") =>
        /\ last.sentName # <<>>
        /\ IsTrimOf(last.sentName, last.name)
        /\ last.subject_id # EmptyId
        /\ last.sentSubjectId = last.subject_id
        /\ last.sentCompleted = FALSE
        /\ last.data.name = last.sentName
        /\ last.data.subject_id = last.subject_id
        /\ last.data.completed = FALSE
        /\ last.data.id \notin Ids(last.was.tasks)
        /\ tasks = <<last.data>> \o last.was.tasks
        /\ notCompletedTasks = <<last.data>> \o last.was.notCompletedTasks
        /\ completedTasks = last.was.completedTasks
        /\ subjects = last.was.subjects

\* a padded name was added to a mirror that already held tasks
AddTaskPrependsWitness ==
    /\ IsOk(last, "addTask")
    /\ last.name # last.sentName
    /\ Len(last.was.notCompletedTasks) = 2
    /\ Len(notCompletedTasks) = 3
    /\ completedTasks # <<>>
    /\ tasks[1].id = 4

(* C9: a successful editTask on an existing task gives the entry of that id,
   in whichever partition holds it, the resolved name and subject_id at the
   same position, and changes no other entry of either partition. *)
EditInPlace ==
    (IsOk(last, "editTask")
        /\ last.taskId \in Ids(last.was.notCompletedTasks) \cup Ids(last.was.completedTasks)) =>
        LET Edited(list) ==
                [k \in 1..Len(list) |->
                    IF list[k].id = last.taskId
                    THEN [id |-> list[k].id, subject_id |-> last.sentSubjectId,
                          name |-> last.sentName, completed |-> list[k].completed,
                          created_at |-> list[k].created_at, subjects |-> list[k].subjects]
                    ELSE list[k]]
        IN  /\ last.name # <<>> => last.sentName = last.name
            /\ last.subject_id # EmptyId => last.sentSubjectId = last.subject_id
            /\ notCompletedTasks = Edited(last.was.notCompletedTasks)
            /\ completedTasks = Edited(last.was.completedTasks)

\* incomplete task 1 of subject 2 was renamed and moved to subject 1
EditInPlaceWitness ==
    /\ IsOk(last, "editTask")
    /\ last.taskId = 1
    /\ last.name # <<>>
    /\ last.subject_id = 1
    /\ Len(notCompletedTasks) = 2
    /\ notCompletedTasks[2].id = 1
    /\ notCompletedTasks[2].name = last.name
    /\ notCompletedTasks[2].subject_id = 1
    /\ last.was.notCompletedTasks[2].subject_id = 2

(* C10: a load whose two fetches succeed replaces the subjects mirror by the
   fetched subjects and the full mirror by the fetched tasks, and sets the
   completed partition to the fetched tasks with completed=true and the
   incomplete partition to those with completed=false, in the fetched order. *)
LoadReplaces ==
    (fetch.result = "ok" /\ ops = 0) =>
        /\ subjects = rSubjects
        /\ Len(tasks) = Len(rTasks)
        /\ \A k \in 1..Len(tasks) :
              LET row == rTasks[Len(rTasks) + 1 - k] IN
              /\ tasks[k].id = row.id
              /\ tasks[k].name = row.name
              /\ tasks[k].subject_id = row.subject_id
              /\ tasks[k].completed = row.completed
              /\ tasks[k].created_at = row.created_at
              /\ tasks[k].subjects.id = row.subject_id
              /\ \E j \in 1..Len(rSubjects) :
                    /\ rSubjects[j].id = row.subject_id
                    /\ tasks[k].subjects.name = rSubjects[j].name
                    /\ tasks[k].subjects.color = rSubjects[j].color
        /\ completedTasks = SelectSeq(tasks, LAMBDA r : r.completed)
        /\ notCompletedTasks = SelectSeq(tasks, LAMBDA r : ~r.completed)

\* the load of a store with two subjects, two open tasks and a completed one
LoadReplacesWitness ==
    /\ fetch.result = "ok"
    /\ ops = 0
    /\ Len(subjects) = 2
    /\ Len(tasks) = 3
    /\ Len(completedTasks) = 1
    /\ Len(notCompletedTasks) = 2
    /\ notCompletedTasks[1].id = 3

(* C11: a load whose subjects fetch fails, or whose subjects fetch succeeds
   and whose tasks fetch fails, changes none of the subjects mirror, the full
   task mirror and the two partitions: the subjects that were fetched are not
   put in the mirror. *)
LoadFailureKeepsState ==
    (fetch.result = "err" /\ ops = 0) =>
        /\ subjects = <<>>
        /\ tasks = <<>>
        /\ completedTasks = <<>>
        /\ notCompletedTasks = <<>>

\* two subjects were fetched and the tasks fetch then failed
LoadFailureKeepsStateWitness ==
    /\ fetch.result = "err"
    /\ ops = 0
    /\ ~loading
    /\ Len(fetch.subjectsData) = 2
    /\ Len(rTasks) = 3

\* s is empty or blanks only
IsBlank(s) == \A k \in 1..Len(s) : s[k] = Space

(* C12: a successful addSubject(name) has sent the trimmed name and one of the
   six palette colours; the record the store returned is the last element of
   the subjects mirror, the earlier subjects in their order; the full task
   mirror and both partitions are unchanged. *)
AddSubjectAppends ==
    IsOk(last, "addSubject") =>
        /\ ~IsBlank(last.name)
        /\ IsTrimOf(last.sentName, last.name)
        /\ last.color \in {"#ef4444", "#10b981", "#f59e0b", "#8b5cf6", "#06b6d4", "#f97316"}
        /\ last.data.name = last.sentName
        /\ last.data.color = last.color
        /\ last.data.id \notin Ids(last.was.subjects)
        /\ subjects = Append(last.was.subjects, last.data)
        /\ tasks = last.was.tasks
        /\ completedTasks = last.was.completedTasks
        /\ notCompletedTasks = last.was.notCompletedTasks

\* a padded name was added, in the last palette colour, to a mirror of two subjects
AddSubjectAppendsWitness ==
    /\ IsOk(last, "addSubject")
    /\ last.name # last.sentName
    /\ last.color = "#f97316"
    /\ Len(last.was.subjects) = 2
    /\ Len(subjects) = 3
    /\ subjects[3].id = 3
    /\ tasks # <<>>

(* C13: addTask with an empty or whitespace-only name, or with an empty
   subjectId, issues no remote insert and leaves the full mirror, both
   partitions and the subjects mirror unchanged. *)
AddTaskNoOp ==
    /\ \A i \in 1..Len(inflight) :
          inflight[i].op = "addTask" =>
              ~IsBlank(inflight[i].name) /\ inflight[i].subject_id # EmptyId
    /\ (last.op = "addTask" /\ (IsBlank(last.name) \/ last.subject_id = EmptyId)) =>
          /\ last.result = "noop"
          /\ subjects = last.was.subjects
          /\ tasks = last.was.tasks
          /\ completedTasks = last.was.completedTasks
          /\ notCompletedTasks = last.was.notCompletedTasks

\* a good name with no subject selected, after a blank name with a subject
AddTaskNoOpWitness ==
    /\ prior.op = "addTask" /\ prior.result = "noop"
    /\ last.op = "addTask" /\ last.result = "noop"
    /\ ~IsBlank(last.name)
    /\ last.subject_id = EmptyId
    /\ Len(subjects) = 2
    /\ Len(tasks) = 3
    /\ Len(rTasks) = 3

(* C14: addSubject with an empty or whitespace-only name issues no remote
   insert and leaves the subjects mirror, the full task mirror and both
   partitions unchanged. *)
AddSubjectNoOp ==
    /\ \A i \in 1..Len(inflight) :
          inflight[i].op = "addSubject" => ~IsBlank(inflight[i].name)
    /\ (last.op = "addSubject" /\ IsBlank(last.name)) =>
          /\ last.result = "noop"
          /\ subjects = last.was.subjects
          /\ tasks = last.was.tasks
          /\ completedTasks = last.was.completedTasks
          /\ notCompletedTasks = last.was.notCompletedTasks

\* a whitespace-only subject name was submitted over a loaded mirror
AddSubjectNoOpWitness ==
    /\ last.op = "addSubject" /\ last.result = "noop"
    /\ last.name = <<Space>>
    /\ Len(subjects) = 2
    /\ Len(rSubjects) = 2
    /\ inflight = <<>>

\* in ascending creation order
Ascending(list) ==
    \A i, j \in 1..Len(list) : i < j => list[i].created_at < list[j].created_at

(* C15: once the load has completed, every subject of the subjects mirror
   stays in it with the same fields and in the same relative order; only a
   successful addSubject changes the mirror, and only by appending the
   returned record, so the mirror stays in ascending creation order; addTask,
   editTask, toggleCompletion and deleteTask never change it. *)
SubjectsAppendOnly ==
    [][ /\ fetch.pc = "done" =>
            \/ subjects' = subjects
            \/ /\ IsOk(last', "addSubject")
               /\ Len(inflight') < Len(inflight)
               /\ subjects' = Append(subjects, last'.data)
        /\ fetch.pc' = "done" => Ascending(subjects')
      ]_vars

\* two subjects were loaded and two more added, one after the other
SubjectsAppendOnlyWitness ==
    /\ fetch.result = "ok"
    /\ IsOk(prior, "addSubject")
    /\ IsOk(last, "addSubject")
    /\ Len(subjects) = 4
    /\ subjects[1].id = 1
    /\ subjects[4].id = 4

-----
\* Properties of handlers that may overlap, every remote call succeeding
\* (SpecOverlap)

\* no handler is waiting for the remote store and the load has completed
Quiescent == inflight = <<>> /\ fetch.pc = "done"

(* C16: when handlers may overlap and every remote call succeeds, in every
   state where no operation is in flight the ids of the incomplete partition
   united with the ids of the completed partition are the ids of the full
   mirror, and no id is in both partitions. *)
PartitionIdsQuiescent ==
    Quiescent =>
        /\ Ids(notCompletedTasks) \cup Ids(completedTasks) = Ids(tasks)
        /\ Ids(notCompletedTasks) \cap Ids(completedTasks) = {}

(* C17: when handlers may overlap and every remote call succeeds, in every
   state where no operation is in flight the full mirror holds the ids of the
   remote task rows and the subjects mirror holds the ids of the remote
   subject rows. *)
NothingLost ==
    Quiescent =>
        /\ Ids(tasks) = Ids(rTasks)
        /\ Ids(subjects) = Ids(rSubjects)

\* the entries of the two partitions with this id
PartitionEntries(taskId) ==
    { r \in { notCompletedTasks[i] : i \in 1..Len(notCompletedTasks) }
            \cup { completedTasks[i] : i \in 1..Len(completedTasks) } :
        r.id = taskId }

(* C18: when two editTask calls on the same task overlap and both succeed,
   then once both answers have been delivered the name and subject_id shown in
   the partitions for that task are those sent by the call whose answer was
   delivered last, in whichever order the calls were issued and the remote
   store applied them. (The first answer found another call still suspended;
   the second answer is the one just delivered.) *)
EditLastResponseWins ==
    (/\ IsOk(last, "editTask")
     /\ IsOk(prior, "editTask")
     /\ prior.taskId = last.taskId
     /\ prior.pending >= 1) =>
        \A r \in PartitionEntries(last.taskId) :
            /\ r.name = last.sentName
            /\ r.subject_id = last.sentSubjectId

\* two edits of task 1 overlapped; the answer delivered last belongs to the
\* edit the remote store applied first, so the card shows its values while the
\* remote row holds the other edit's
EditLastResponseWinsWitness ==
    /\ inflight = <<>>
    /\ IsOk(last, "editTask")
    /\ IsOk(prior, "editTask")
    /\ prior.taskId = 1
    /\ last.taskId = 1
    /\ prior.pending = 1
    /\ last.pending = 0
    /\ last.sentName = <<Space>>
    /\ PartitionEntries(1) # {}
    /\ \A r \in PartitionEntries(1) : r.name = <<Space>>
    /\ \E i \in 1..Len(rTasks) : rTasks[i].id = 1 /\ rTasks[i].name = <<Space, "b">>

-----
\* Properties of handlers invoked one at a time, every remote call succeeding
\* (SpecSucceeding)

(* C19: after each operation every task of the incomplete or completed
   partition has the name, subject_id and completed value of the remote row
   with its id. *)
DisplayedAgreesWithStore ==
    inflight = <<>> =>
        \A list \in {notCompletedTasks, completedTasks} :
            \A k \in 1..Len(list) :
                \E i \in 1..Len(rTasks) :
                    /\ rTasks[i].id = list[k].id
                    /\ rTasks[i].name = list[k].name
                    /\ rTasks[i].subject_id = list[k].subject_id
                    /\ rTasks[i].completed = list[k].completed

-----
\* Further properties of handlers invoked one at a time (Spec)

(* C20: after every operation each task id occurs exactly once in the full
   mirror and exactly once across the two partitions, so the lengths of the
   two partitions add up to the length of the full mirror; the checkbox
   handler may be called with the value the task already has. *)
ListedOnce ==
    LET Count(list, t) == Len(SelectSeq(list, LAMBDA r : r.id = t))
    IN  /\ \A t \in Ids(tasks) :
            /\ Count(tasks, t) = 1
            /\ Count(notCompletedTasks, t) + Count(completedTasks, t) = 1
        /\ Len(completedTasks) + Len(notCompletedTasks) = Len(tasks)

-----
\* Properties of overlapping handlers whose remote calls may fail
\* (SpecOverlapFailing)

(* C21: in every run, overlapping or not, a step that changes the subjects
   mirror, the full mirror or a partition is the continuation of an operation
   whose own remote call has been answered with success: the load after both
   of its fetches succeeded, or a handler whose request the store answered
   with success and which finishes with that step. *)
MutationAfterOwnSuccess ==
    [][ local' # local =>
            \/ /\ fetch.pc = "tasks"
               /\ fetch'.pc = "done"
               /\ fetch'.result = "ok"
            \/ \E i \in 1..Len(inflight) :
                  /\ inflight[i].phase = "ok"
                  /\ inflight' = RemoveAt(inflight, i)
                  /\ last' = Done(inflight[i], "ok")
      ]_vars

\* a handler failed while another was suspended, and that other one then
\* succeeded and moved a task from one partition to the other
MutationAfterOwnSuccessWitness ==
    /\ inflight = <<>>
    /\ prior.result = "err"
    /\ prior.pending = 1
    /\ IsOk(last, "toggleTaskStatus")
    /\ tasks # last.was.tasks
    /\ notCompletedTasks # last.was.notCompletedTasks
    /\ completedTasks # last.was.completedTasks

-----
\* The frame of editTask and the names sent to the store, handlers invoked
\* one at a time (Spec)

\* list has the entries of before, in their order; an entry of taskId may
\* differ in name and subject_id only, every other entry in nothing
SameButNameAndSubject(list, before, taskId) ==
    /\ Len(list) = Len(before)
    /\ \A k \in 1..Len(list) :
          /\ list[k].id = before[k].id
          /\ list[k].completed = before[k].completed
          /\ list[k].created_at = before[k].created_at
          /\ list[k].subjects = before[k].subjects
          /\ list[k].id # taskId => list[k] = before[k]

(* C22: a successful editTask changes no task's completed value, moves no
   task between partitions, adds or removes no entry in any container, leaves
   the subjects mirror unchanged, and leaves the joined subject of the edited
   task as it was, also when subject_id is changed to another subject. *)
EditTaskFrame ==
    IsOk(last, "editTask") =>
        /\ subjects = last.was.subjects
        /\ tasks = last.was.tasks
        /\ SameButNameAndSubject(notCompletedTasks, last.was.notCompletedTasks, last.taskId)
        /\ SameButNameAndSubject(completedTasks, last.was.completedTasks, last.taskId)

\* completed task 2 of subject 1 was moved to subject 2; its card still
\* carries subject 1 as the joined subject
EditTaskFrameWitness ==
    /\ IsOk(last, "editTask")
    /\ last.taskId = 2
    /\ last.sentSubjectId = 2
    /\ Len(completedTasks) = 1
    /\ completedTasks[1].id = 2
    /\ completedTasks[1].subject_id = 2
    /\ completedTasks[1].subjects.id = 1
    /\ last.was.completedTasks[1].subject_id = 1
    /\ Len(notCompletedTasks) = 2

(* C23: every task name sent to the remote store, in addTask's insert and in
   editTask's update, is neither empty nor blanks only. *)
NamesSentNotBlank ==
    \A i \in 1..Len(inflight) :
        inflight[i].op \in {"addTask", "editTask"} => ~IsBlank(inflight[i].sentName)

-----
\* The loading flag, with overlapping handlers and failing calls
\* (SpecOverlapFailing)

(* C24: the loading flag is true exactly as long as the initial load has not
   finished, so it starts true and is false once the load has ended, with
   success or with failure; it never becomes true again; while it is true no
   handler has been started, so the load overlaps no mutating operation. *)
LoadingGate ==
    /\ [](loading <=> fetch.pc # "done")
    /\ [](loading => inflight = <<>> /\ ops = 0 /\ last = NoCall /\ taskEditId = EmptyId)
    /\ [][~loading => ~loading']_vars

\* the load failed at its first fetch, the flag is cleared, and two handlers
\* started afterwards are suspended at the same time
LoadingGateWitness ==
    /\ ~loading
    /\ fetch.pc = "done"
    /\ fetch.result = "err"
    /\ fetch.subjectsData = <<>>
    /\ rSubjects # <<>>
    /\ Len(inflight) = 2

====
